---- MODULE Spec2Model ----
(***************************************************************************)
(* Model of server/handler.go (go-mysql-server): Handler.doQuery and the   *)
(* goroutines it starts under one errgroup: the producer that reads the    *)
(* row iterator, the consumer that batches rows and calls the result       *)
(* callback, the socket poller and the closer.                             *)
(***************************************************************************)
EXTENDS Integers, Sequences, FiniteSets, TLC

\* Batch size of the consumer.  The source sets rowsBatch = 128
\* (handler.go:55); the model runs the same comparisons with a small value.
rowsBatch == 2
\* Capacity of rowChan / row2Chan.  The source makes the channels with 512
\* slots (handler.go:371,373); the model keeps it above rowsBatch.
rowChanCap == 3
\* Largest number of rows the iterator returns before it must end.
MaxRows == 6
\* The same for the runs that are checked for termination.
LiveRows == 1
\* An OkResult row is only returned among the first MaxOkPos rows.
MaxOkPos == 2

NoErr == "nil"

\* A query text of n statements; a statement is named by its position.
Stmts(n) == [i \in 1..n |-> i]

\* What reading the session variable autocommit can give: an integer value,
\* nil, or a failed lookup; NotRead before the read.
IntVal(n) == [t |-> "int", v |-> n]
AutocommitReads ==
    {IntVal(0), IntVal(1), IntVal(2), [t |-> "nil"], [t |-> "lookupError"]}
NotRead == [t |-> "notRead"]
Nil == [nil |-> TRUE]

VARIABLES
    readTimeout,    \* h.readTimeout: 0 or positive
    iterCap,        \* the iterator ends after at most this many rows
    entry,          \* the handler method that called doQuery
    query,          \* doQuery's query, as the sequence of its statements
    remainder,      \* doQuery's local variable remainder
    more,           \* doQuery's local variable more
    ranLog,         \* the statements given to the engine so far, in order
    oldFlags,       \* c.StatusFlags before the query
    sessAutocommit, \* what GetSessionVariable(autocommit) gave when it was read
    sessTx,         \* ctx.GetTransaction() != nil, when it was read
    statusFlags,    \* c.StatusFlags, as the set of bits that are set
    pc,             \* position of doQuery itself
    err,            \* doQuery's local variable err
    retErr,         \* the error doQuery returned
    ctxNil,         \* ctx == nil after BeginQuery
    beginRes,       \* what BeginQuery returned: "none" before the call, "ok", "err"
    engineCalled,   \* QueryNodeWithBindings was called
    endQueryCalls,  \* calls of ctx.ProcessList.EndQuery made by doQuery
    finishLog,      \* the counters the deferred finish(err) has added to
    isNode2,        \* the iterator is a RowIter2 (Row2 path)
    pcProd,         \* producer goroutine
    prodRow,        \* the row the producer is about to send
    iterRows,       \* rows returned so far by Next / Next2
    iterEnd,        \* how the iterator ended: "none", "EOF", "ERR"
    closeCalls,     \* calls of rowIter.Close
    rowChan,        \* rowChan / row2Chan contents
    chanClosed,     \* the channel was closed
    pcCons,         \* consumer goroutine
    r,              \* the result being filled (Nil for a nil pointer)
    processedAtLeastOneBatch,
    timer,          \* consumer timer: "running", "fired", "drained"
    delivered,      \* results passed to callback, in call order
    moreLog,        \* the more flag passed with each of them
    cbFailedAt,     \* index of the callback call that returned an error, or 0
    timedOut,       \* the consumer returned ErrRowTimeout
    firedInFlush,   \* the timer ran out during the callback for a full batch,
                    \* with a row waiting in the channel
    pcPoll,         \* poller goroutine
    polled,         \* the poller has looked up the socket state
    pollExit,       \* why pollForClosedConnection returned, "none" before
    pollRet,        \* what pollForClosedConnection returned, "none" before
    pollCancelled,  \* cancelF() was called
    pcCloser,       \* closer goroutine
    wg,             \* sync.WaitGroup counter
    egErr,          \* first error recorded by the errgroup
    errLog,         \* the errors the goroutines returned, in time order
    ctxDone,        \* ctx.Done() is closed
    killed,         \* the context was cancelled from outside the group
    pcClose,        \* position of ConnectionClosed, "idle" when it is not run
    hasSel,         \* h.sel != nil
    heldLocks,      \* the locks the session holds
    tablesLocked,   \* the tables the connection has locked
    sessionOpen,    \* the engine has a session for the connection
    connKnown,      \* the session manager knows the connection
    closeLog        \* the teardown calls ConnectionClosed made, in order

vars == <<readTimeout, iterCap, entry, query, remainder, more, ranLog, moreLog,
          oldFlags, sessAutocommit, sessTx, statusFlags,
          pc, err, retErr,
          ctxNil, beginRes, engineCalled, endQueryCalls, finishLog, isNode2,
          pcProd,
          prodRow, iterRows, iterEnd, closeCalls, rowChan, chanClosed, pcCons,
          r, processedAtLeastOneBatch, timer, delivered, cbFailedAt, timedOut,
          firedInFlush, pcPoll, polled, pollExit, pollRet, pollCancelled,
          pcCloser, wg, egErr, errLog, ctxDone, killed,
          pcClose, hasSel, heldLocks, tablesLocked, sessionOpen, connKnown,
          closeLog>>

\* What doQuery does not touch: the state of ConnectionClosed.
closeV == <<pcClose, hasSel, heldLocks, tablesLocked, sessionOpen, connKnown,
            closeLog>>

VARIABLES
    bindings,       \* bindingsToExprs: name -> [Type, Value]
    bindRes,        \* res: the literals made so far, by name
    pcBind,         \* "idle", "loop", "done"
    bindRet,        \* the returned map, or Nil
    bindErr,        \* the returned error
    failedKey       \* the name at which the loop returned an error

bindV == <<bindings, bindRes, pcBind, bindRet, bindErr, failedKey>>

VARIABLES
    processes,      \* ctx.ProcessList.Processes(): the snapshot
    listRows,       \* RowIter's rows: the rows made so far
    pcList          \* "idle", "loop", "done"

listV == <<processes, listRows, pcList>>

VARIABLES
    logQuery,           \* the query text doQuery renders, as bytes
    encodeLoggedQuery,  \* h.encodeLoggedQuery
    maxLoggedQueryLen,  \* h.maxLoggedQueryLen
    queryStr,           \* the rendered text
    loggerField,        \* the logger's "query" field, or NoField
    pcLog               \* "idle", "render", "attach", "done"

logV == <<logQuery, encodeLoggedQuery, maxLoggedQueryLen, queryStr,
          loggerField, pcLog>>
sideV == <<closeV, bindV, listV, logV>>

cfgV  == <<readTimeout, iterCap, entry, oldFlags, sideV>>
reqV  == <<query, remainder, more, ranLog>>
flagV == <<statusFlags, sessAutocommit, sessTx>>
mainV == <<flagV, pc, err, retErr, ctxNil, beginRes, engineCalled,
           endQueryCalls, finishLog>>
prodV == <<pcProd, prodRow, iterRows, iterEnd>>
chanV == <<rowChan, chanClosed>>
pollV == <<pcPoll, polled, pollExit, pollRet>>
consV == <<pcCons, r, processedAtLeastOneBatch, timer, delivered, moreLog,
           cbFailedAt,
           timedOut, firedInFlush, pollCancelled>>

\* Everything doQuery and its goroutines read or write.
queryV == <<readTimeout, iterCap, entry, oldFlags, reqV, mainV, isNode2, prodV,
            closeCalls, chanV, consV, pollV, pcCloser, wg, egErr, errLog,
            ctxDone, killed>>

\* What the steps of one operation leave alone of the others' state.
notCloseV == <<queryV, bindV, listV, logV>>
notBindV == <<queryV, closeV, listV, logV>>
notListV == <<queryV, closeV, bindV, logV>>
notLogV == <<queryV, closeV, bindV, listV>>

----------------------------------------------------------------------------
\* Rows and results

DataRow(i) == [kind |-> "row", id |-> i]
OkRow(a, i) == [kind |-> "ok", affected |-> a, insertID |-> i]

\* types.IsOkResult
IsOkResult(row) == row.kind = "ok"

\* &sqltypes.Result{Fields: schemaToFields(schema)}
NewResult == [rows |-> <<>>, affected |-> 0, insertID |-> 0, fields |-> TRUE]

resultFromOkResultNoAffected(row) ==
    [rows |-> <<>>, affected |-> 0, insertID |-> row.insertID,
     fields |-> FALSE]

\* resultFromOkResult: RowsAffected and InsertID copied, no Fields, no Rows
resultFromOkResult(row) ==
    [rows |-> <<>>, affected |-> row.affected, insertID |-> row.insertID,
     fields |-> FALSE]

\* rowToSQL / row2ToSQL: the wire form of a row
rowToSQL(row) == [wire |-> row.id]

\* r.Rows = append(r.Rows, outputRow); r.RowsAffected++
AppendRow(res, row) ==
    [res EXCEPT !.rows = Append(@, rowToSQL(row)), !.affected = @ + 1]

----------------------------------------------------------------------------
InitWith(cap, entries, queries) ==
    /\ readTimeout \in {0, 1}
    /\ iterCap = cap
    /\ entry \in entries
    /\ query \in queries
    /\ remainder = <<>>
    /\ more = FALSE
    /\ ranLog = <<>>
    /\ moreLog = <<>>
    /\ statusFlags \in {{"Autocommit"}, {"InTransaction"}}
    /\ oldFlags = statusFlags
    /\ sessAutocommit = NotRead
    /\ sessTx = FALSE
    /\ pc = "start"
    /\ err = NoErr
    /\ retErr = NoErr
    /\ ctxNil = FALSE
    /\ beginRes = "none"
    /\ engineCalled = FALSE
    /\ endQueryCalls = 0
    /\ finishLog = <<>>
    /\ isNode2 = FALSE
    /\ pcProd = "idle"
    /\ prodRow = Nil
    /\ iterRows = <<>>
    /\ iterEnd = "none"
    /\ closeCalls = 0
    /\ rowChan = <<>>
    /\ chanClosed = FALSE
    /\ pcCons = "idle"
    /\ r = Nil
    /\ processedAtLeastOneBatch = FALSE
    /\ timer = "idle"
    /\ delivered = <<>>
    /\ cbFailedAt = 0
    /\ timedOut = FALSE
    /\ firedInFlush = FALSE
    /\ pcPoll = "idle"
    /\ polled = FALSE
    /\ pollExit = "none"
    /\ pollRet = "none"
    /\ pollCancelled = FALSE
    /\ pcCloser = "idle"
    /\ wg = 0
    /\ egErr = NoErr
    /\ errLog = <<>>
    /\ ctxDone = FALSE
    /\ killed = FALSE

\* ConnectionClosed is not run: a connection with its session, no locks.
CloseIdle ==
    /\ pcClose = "idle"
    /\ hasSel = TRUE
    /\ heldLocks = {}
    /\ tablesLocked = {}
    /\ sessionOpen = TRUE
    /\ connKnown = TRUE
    /\ closeLog = <<>>

BindIdle ==
    /\ bindings = <<>>
    /\ bindRes = <<>>
    /\ pcBind = "idle"
    /\ bindRet = Nil
    /\ bindErr = NoErr
    /\ failedKey = {}

ListIdle ==
    /\ processes = <<>>
    /\ listRows = <<>>
    /\ pcList = "idle"

NoField == [attached |-> FALSE]

LogIdle ==
    /\ logQuery = <<>>
    /\ encodeLoggedQuery = FALSE
    /\ maxLoggedQueryLen = 0
    /\ queryStr = <<>>
    /\ loggerField = NoField
    /\ pcLog = "idle"

SideIdle == CloseIdle /\ BindIdle /\ ListIdle /\ LogIdle

Init == InitWith(MaxRows, {"ComQuery"}, {Stmts(1)}) /\ SideIdle

----------------------------------------------------------------------------
\* doQuery itself

\* The deferred func of doQuery: EndQuery is called when the local err is
\* not nil and ctx is not nil.
DeferredEndQuery(localErr, nilCtx) ==
    IF localErr # NoErr /\ ~nilCtx THEN endQueryCalls + 1 ELSE endQueryCalls

\* The closure observeQuery returns, called with e: the counter it adds to
\* (with QueryCounter it also observes QueryHistogram).
finish(e) == IF e # NoErr THEN "QueryErrorCounter" ELSE "QueryCounter"

\* defer finish(err): the argument is the value err has when the defer
\* statement is executed, after NewContext returned no error.
DeferredFinish == Append(finishLog, finish(NoErr))

\* return remainder, e  with the local variable err holding localErr
Return(e, localErr) ==
    /\ pc' = "done"
    /\ retErr' = e
    /\ err' = localErr
    /\ endQueryCalls' = DeferredEndQuery(localErr, ctxNil)
    /\ finishLog' = DeferredFinish

\* The mode each handler method passes to doQuery.
ModeOf(e) == IF e = "ComMultiQuery" THEN "MultiStmtModeOn" ELSE "MultiStmtModeOff"

\* parse.ParseOne: the first statement of the text and the text after it.
ParseOne(q) == [prequery |-> <<Head(q)>>, remainder |-> Tail(q)]

MoreAlways(rem) == TRUE

\* more := remainder != ""
MoreOf(rem) == rem # <<>>

\* NewContext, ParseOne / Parse and bindingsToExprs: each may fail, and the
\* function then returns before BeginQuery and before the defer exists.  In
\* multi-statement mode ParseOne splits the text first; its error is dropped
\* and Parse then reports it.
Prologue ==
    /\ pc = "start"
    /\ \E o \in {"ErrContext", "ErrParse", "ErrBindings", NoErr} :
          /\ IF o # "ErrContext" /\ ModeOf(entry) = "MultiStmtModeOn"
             THEN /\ remainder' = ParseOne(query).remainder
                  /\ query' = IF ParseOne(query).prequery # <<>>
                              THEN ParseOne(query).prequery ELSE query
             ELSE UNCHANGED <<query, remainder>>
          /\ more' = IF o # "ErrContext" THEN MoreOf(remainder') ELSE more
          /\ IF o = NoErr
             THEN /\ pc' = "begin"
                  /\ UNCHANGED <<err, retErr>>
             ELSE /\ pc' = "done"
                  /\ retErr' = o
                  /\ err' = o
          /\ finishLog' = IF o \in {"ErrParse", "ErrBindings"}
                          THEN DeferredFinish ELSE finishLog
    /\ UNCHANGED <<cfgV, ranLog, flagV, ctxNil, beginRes, engineCalled,
                   endQueryCalls, isNode2, prodV, closeCalls, chanV, consV,
                   pollV, pcCloser, wg, egErr, errLog, ctxDone, killed>>

\* The string doQuery returns with its error: "" from the returns before
\* and right after the parse, else remainder.
ReturnedRemainder ==
    IF retErr \in {"ErrContext", "ErrParse"} THEN <<>> ELSE remainder

\* ctx, err = ctx.ProcessList.BeginQuery(ctx, query); the result is not
\* tested before the engine is called.
BeginQuery ==
    /\ pc = "begin"
    /\ \E res \in {"ok", "err", "errNilCtx"} :
          /\ err' = IF res = "ok" THEN NoErr ELSE "ErrBegin"
          /\ beginRes' = (IF res = "ok" THEN "ok" ELSE "err")
          /\ ctxNil' = (res = "errNilCtx")
    /\ pc' = "engine"
    /\ UNCHANGED <<cfgV, reqV, flagV, retErr, engineCalled, endQueryCalls, finishLog,
                   isNode2, prodV, closeCalls, chanV, consV, pollV, pcCloser,
                   wg, egErr, errLog, ctxDone, killed>>

\* schema, rowIter, err := h.e.QueryNodeWithBindings(ctx, ...).  With a nil
\* ctx the uses of ctx that follow dereference nil.
QueryNode ==
    /\ pc = "engine"
    /\ engineCalled' = TRUE
    /\ ranLog' = Append(ranLog, [stmt |-> query, more |-> more])
    /\ IF ctxNil
       THEN /\ pc' = "panic"
            /\ UNCHANGED <<err, retErr, endQueryCalls, finishLog>>
       ELSE \E res \in {"ok", "err"} :
               IF res = "err"
               THEN Return("ErrEngine", "ErrEngine")
               ELSE /\ pc' = "spawn"
                    /\ err' = NoErr
                    /\ UNCHANGED <<retErr, endQueryCalls, finishLog>>
    /\ UNCHANGED <<cfgV, query, remainder, more, flagV, ctxNil, beginRes,
                   isNode2, prodV, closeCalls, chanV, consV, pollV, pcCloser,
                   wg, egErr, errLog, ctxDone, killed>>

\* The channel is made, wg.Add(2), the four eg.Go calls, the timer.
Spawn ==
    /\ pc = "spawn"
    /\ \E n2 \in BOOLEAN : isNode2' = n2
    /\ wg' = 2
    /\ pcProd' = "next"
    /\ pcCons' = "top"
    /\ pcPoll' = "start"
    /\ pcCloser' = "wait"
    /\ timer' = "running"
    /\ pc' = "wait"
    /\ UNCHANGED <<cfgV, reqV, flagV, err, retErr, ctxNil, beginRes,
                   engineCalled, endQueryCalls, finishLog, prodRow, iterRows, iterEnd,
                   closeCalls, chanV, r, processedAtLeastOneBatch, delivered, moreLog,
                   cbFailedAt, timedOut, firedInFlush, polled, pollExit,
                   pollRet, pollCancelled, egErr, errLog, ctxDone, killed>>

\* err = eg.Wait(); if err != nil { return remainder, err }
WaitFailedNever(e) == FALSE

WaitFailed(e) == e # NoErr

\* eg.Wait(): all four goroutines have returned; it yields the first error.
Wait ==
    /\ pc = "wait"
    /\ pcProd = "done" /\ pcCons = "done" /\ pcPoll = "done" /\ pcCloser = "done"
    /\ IF WaitFailed(egErr)
       THEN /\ Return(egErr, egErr)
       ELSE /\ pc' = "flags"
            /\ err' = NoErr
            /\ UNCHANGED <<retErr, endQueryCalls, finishLog>>
    /\ ctxDone' = TRUE
    /\ UNCHANGED <<cfgV, reqV, flagV, ctxNil, beginRes, engineCalled,
                   isNode2, prodV, closeCalls, chanV, consV, pollV, pcCloser,
                   wg, egErr, errLog, killed>>

\* types.ConvertToBool, for the values a system variable can hold here: an
\* integer converts to (v != 0), nil does not convert.
ConvertToBool(x) ==
    IF x.t = "int"
    THEN [err |-> FALSE, val |-> x.v # 0]
    ELSE [err |-> TRUE, val |-> FALSE]

\* isSessionAutocommit: the lookup of the variable may fail, else its value
\* is converted.
isSessionAutocommit(x) ==
    IF x.t = "lookupError"
    THEN [err |-> TRUE, val |-> FALSE]
    ELSE ConvertToBool(x)

FlagsAfterSetOnly(flags, ac, tx) ==
    flags \cup (IF ac THEN {"Autocommit"} ELSE {})
          \cup (IF tx THEN {"InTransaction"} ELSE {})

\* setConnStatusFlags: both bits are set or cleared
FlagsAfter(flags, ac, tx) ==
    LET f1 == IF ac THEN flags \cup {"Autocommit"} ELSE flags \ {"Autocommit"}
    IN  IF tx THEN f1 \cup {"InTransaction"} ELSE f1 \ {"InTransaction"}

\* ctx = oCtx; err = setConnStatusFlags(ctx, c): the session is read now;
\* reading or converting the variable may fail, and then nothing is written.
SetConnStatusFlags ==
    /\ pc = "flags"
    /\ \E x \in AutocommitReads, tx \in BOOLEAN :
          /\ sessAutocommit' = x
          /\ sessTx' = tx
          /\ IF ~isSessionAutocommit(x).err
             THEN /\ statusFlags' =
                       FlagsAfter(statusFlags, isSessionAutocommit(x).val, tx)
                  /\ pc' = "final"
                  /\ UNCHANGED <<err, retErr, endQueryCalls, finishLog>>
             ELSE /\ Return("ErrFlags", "ErrFlags")
                  /\ UNCHANGED statusFlags
    /\ UNCHANGED <<cfgV, reqV, ctxNil, beginRes, engineCalled, isNode2, prodV,
                   closeCalls, chanV, consV, pollV, pcCloser, wg, egErr, errLog,
                   ctxDone, killed>>

\* The last lines of doQuery: no callback for an empty result when a batch
\* was already delivered, else  return remainder, callback(r, more)  which
\* leaves the local err as it was.
FinalCallback ==
    /\ pc = "final"
    /\ IF r # Nil /\ r.affected = 0 /\ processedAtLeastOneBatch
       THEN /\ Return(NoErr, err)
            /\ UNCHANGED <<delivered, moreLog, cbFailedAt>>
       ELSE \E ok \in BOOLEAN :
               /\ delivered' = Append(delivered, r)
               /\ moreLog' = Append(moreLog, more)
               /\ cbFailedAt' = IF ok THEN cbFailedAt ELSE Len(delivered) + 1
               /\ Return(IF ok THEN NoErr ELSE "ErrCallback", err)
    /\ UNCHANGED <<cfgV, reqV, flagV, ctxNil, beginRes, engineCalled,
                   isNode2, prodV, closeCalls, chanV, pcCons, r,
                   processedAtLeastOneBatch, timer, timedOut, firedInFlush, pollCancelled,
                   pollV, pcCloser, wg, egErr, errLog, ctxDone, killed>>

----------------------------------------------------------------------------
\* The errgroup

\* A function passed to eg.Go returned e: the first non-nil error is kept
\* and cancels the group's context.
EgLastErr(e) == IF e # NoErr THEN e ELSE egErr

EgFirstErr(e) == IF e # NoErr /\ egErr = NoErr THEN e ELSE egErr

EgReturn(e) ==
    /\ egErr' = EgFirstErr(e)
    /\ errLog' = IF e # NoErr THEN Append(errLog, e) ELSE errLog
    /\ ctxDone' = (ctxDone \/ e # NoErr)

----------------------------------------------------------------------------
\* The row iterator: what one call of Next / Next2 may yield

OkAffected == {0, 1, rowsBatch}

HasOk(rows) == \E i \in 1..Len(rows) : IsOkResult(rows[i])

NextOutcomes ==
    {[t |-> "EOF"], [t |-> "ERR"]}
    \cup {[t |-> "row", row |-> DataRow(Len(iterRows) + 1)] :
             x \in IF Len(iterRows) < iterCap THEN {1} ELSE {}}
    \cup {[t |-> "row", row |-> OkRow(a, 7)] :
             a \in IF /\ ~isNode2
                      /\ Len(iterRows) < MaxOkPos
                      /\ Len(iterRows) < iterCap
                      /\ ~HasOk(iterRows)
                   THEN OkAffected ELSE {}}

----------------------------------------------------------------------------
\* Producer goroutine

\* The producer returns e: deferred close of the channel, wg.Done().
ProducerReturn(e) ==
    /\ pcProd' = "done"
    /\ chanClosed' = TRUE
    /\ wg' = wg - 1
    /\ EgReturn(e)

\* Row path: select { case <-ctx.Done(): return nil; default: rowIter.Next }
ProducerNext ==
    /\ pcProd = "next" /\ ~isNode2
    /\ IF ctxDone
       THEN /\ ProducerReturn(NoErr)
            /\ UNCHANGED <<prodRow, iterRows, iterEnd>>
       ELSE \E o \in NextOutcomes :
               CASE o.t = "row" ->
                      /\ prodRow' = o.row
                      /\ iterRows' = Append(iterRows, o.row)
                      /\ pcProd' = "send"
                      /\ UNCHANGED <<iterEnd, chanClosed, wg, egErr, errLog, ctxDone>>
                 [] o.t = "EOF" ->
                      /\ iterEnd' = "EOF"
                      /\ ProducerReturn(NoErr)
                      /\ UNCHANGED <<prodRow, iterRows>>
                 [] o.t = "ERR" ->
                      /\ iterEnd' = "ERR"
                      /\ ProducerReturn("ErrIter")
                      /\ UNCHANGED <<prodRow, iterRows>>
    /\ UNCHANGED <<cfgV, reqV, mainV, isNode2, closeCalls, rowChan, consV, pollV,
                   pcCloser, killed>>

\* Row2 path: rowIter2.Next2 without a look at ctx; on io.EOF
\* return rowIter2.Close(ctx), on another error Close and return the error.
ProducerNext2 ==
    /\ pcProd = "next" /\ isNode2
    /\ \E o \in NextOutcomes :
          CASE o.t = "row" ->
                 /\ prodRow' = o.row
                 /\ iterRows' = Append(iterRows, o.row)
                 /\ pcProd' = "send"
                 /\ UNCHANGED <<iterEnd, closeCalls, chanClosed, wg, egErr, errLog,
                                ctxDone>>
            [] o.t = "EOF" ->
                 /\ iterEnd' = "EOF"
                 /\ closeCalls' = closeCalls + 1
                 /\ \E cerr \in {NoErr, "ErrClose"} : ProducerReturn(cerr)
                 /\ UNCHANGED <<prodRow, iterRows>>
            [] o.t = "ERR" ->
                 /\ iterEnd' = "ERR"
                 /\ closeCalls' = closeCalls + 1
                 /\ ProducerReturn("ErrIter")
                 /\ UNCHANGED <<prodRow, iterRows>>
    /\ UNCHANGED <<cfgV, reqV, mainV, isNode2, rowChan, consV, pollV, pcCloser,
                   killed>>

\* select { case rowChan <- row: ; case <-ctx.Done(): return nil }
ProducerSend ==
    /\ pcProd = "send"
    /\ \/ /\ Len(rowChan) < rowChanCap
          /\ rowChan' = Append(rowChan, prodRow)
          /\ pcProd' = "next"
          /\ prodRow' = Nil
          /\ UNCHANGED <<chanClosed, wg, egErr, errLog, ctxDone>>
       \/ /\ ctxDone
          /\ ProducerReturn(NoErr)
          /\ UNCHANGED <<rowChan, prodRow>>
    /\ UNCHANGED <<cfgV, reqV, mainV, isNode2, iterRows, iterEnd, closeCalls, consV,
                   pollV, pcCloser, killed>>

----------------------------------------------------------------------------
\* Consumer goroutine

\* The consumer returns e: deferred wg.Done() and cancelF().
ConsumerReturn(e) ==
    /\ pcCons' = "done"
    /\ pollCancelled' = TRUE
    /\ wg' = wg - 1
    /\ EgReturn(e)

\* if r.RowsAffected == rowsBatch
BatchFullOffByOne(res) == res.affected > rowsBatch

BatchFull(res) == res.affected = rowsBatch

\* if err := callback(r, more); err != nil { return err }
FlushReturnsNever(cbErr) == FALSE

FlushReturns(cbErr) == cbErr # NoErr

\* Head of the for loop: a nil r is replaced by a fresh result; a full batch
\* is passed to callback, and the loop continues with r = nil.
ConsumerTop ==
    /\ pcCons = "top"
    /\ LET r1 == IF r = Nil THEN NewResult ELSE r IN
       IF BatchFull(r1)
       THEN \E cbErr \in {NoErr, "ErrCallback"} :
               /\ delivered' = Append(delivered, r1)
               /\ moreLog' = Append(moreLog, more)
               /\ cbFailedAt' = IF cbErr = NoErr THEN cbFailedAt
                                ELSE Len(delivered) + 1
               /\ IF FlushReturns(cbErr)
                  THEN /\ r' = r1
                       /\ ConsumerReturn(cbErr)
                       /\ UNCHANGED processedAtLeastOneBatch
                  ELSE /\ r' = Nil
                       /\ processedAtLeastOneBatch' = TRUE
                       /\ UNCHANGED <<pcCons, pollCancelled, wg, egErr, errLog,
                                      ctxDone>>
       ELSE /\ r' = r1
            /\ pcCons' = "select"
            /\ UNCHANGED <<delivered, moreLog, processedAtLeastOneBatch, pollCancelled,
                           wg, egErr, errLog, ctxDone, cbFailedAt>>
    /\ UNCHANGED <<cfgV, reqV, mainV, isNode2, prodV, closeCalls, chanV, timer,
                   timedOut, firedInFlush, pollV, pcCloser, killed>>

\* select, case <-ctx.Done(): return nil
ConsumerCtxDone ==
    /\ pcCons = "select"
    /\ ctxDone
    /\ ConsumerReturn(NoErr)
    /\ UNCHANGED <<cfgV, reqV, mainV, isNode2, prodV, closeCalls, chanV, r,
                   processedAtLeastOneBatch, timer, delivered, moreLog, cbFailedAt,
                   timedOut, firedInFlush, pollV, pcCloser, killed>>

\* select, case row, ok := <-rowChan with ok false: return nil
ConsumerChanClosed ==
    /\ pcCons = "select"
    /\ rowChan = <<>> /\ chanClosed
    /\ ConsumerReturn(NoErr)
    /\ UNCHANGED <<cfgV, reqV, mainV, isNode2, prodV, closeCalls, chanV, r,
                   processedAtLeastOneBatch, timer, delivered, moreLog, cbFailedAt,
                   timedOut, firedInFlush, pollV, pcCloser, killed>>

\* select, case row, ok := <-rowChan with a row.  On the Row path an
\* OkResult replaces r (a panic when r already has rows) and the loop
\* continues; otherwise the row is converted, which may fail, and appended.
ConsumerRecv ==
    /\ pcCons = "select"
    /\ rowChan # <<>>
    /\ rowChan' = Tail(rowChan)
    /\ LET row == Head(rowChan) IN
       IF ~isNode2 /\ IsOkResult(row)
       THEN IF Len(r.rows) > 0
            THEN /\ pcCons' = "panic"
                 /\ pc' = "panic"
                 /\ UNCHANGED <<r, pollCancelled, wg, egErr, errLog, ctxDone>>
            ELSE /\ r' = resultFromOkResult(row)
                 /\ pcCons' = "top"
                 /\ UNCHANGED <<pc, pollCancelled, wg, egErr, errLog, ctxDone>>
       ELSE \E convOk \in BOOLEAN :
               IF convOk
               THEN /\ r' = AppendRow(r, row)
                    /\ pcCons' = "timer"
                    /\ UNCHANGED <<pc, pollCancelled, wg, egErr, errLog, ctxDone>>
               ELSE /\ ConsumerReturn("ErrConvert")
                    /\ UNCHANGED <<pc, r>>
    /\ UNCHANGED <<cfgV, reqV, flagV, err, retErr, ctxNil, beginRes,
                   engineCalled, endQueryCalls, finishLog, isNode2, prodV, closeCalls,
                   chanClosed, processedAtLeastOneBatch, timer, delivered, moreLog,
                   cbFailedAt, timedOut, firedInFlush, pollV, pcCloser, killed>>

\* select, case <-timer.C: with a read timeout (h.readTimeout != 0) return
\* ErrRowTimeout, else fall through to the timer reset.
TimeoutConfiguredAboveOne(rt) == rt > 1

TimeoutConfigured(rt) == rt # 0

ConsumerTimeout ==
    /\ pcCons = "select"
    /\ timer = "fired"
    /\ timer' = "drained"
    /\ IF TimeoutConfigured(readTimeout)
       THEN /\ timedOut' = TRUE
            /\ ConsumerReturn("ErrRowTimeout")
       ELSE /\ pcCons' = "timer"
            /\ UNCHANGED <<timedOut, pollCancelled, wg, egErr, errLog, ctxDone>>
    /\ UNCHANGED <<cfgV, reqV, mainV, isNode2, prodV, closeCalls, chanV, r,
                   processedAtLeastOneBatch, delivered, moreLog, cbFailedAt,
                   firedInFlush, pollV, pcCloser, killed>>

\* if !timer.Stop() { <-timer.C }; timer.Reset(waitTime).  Stop reports
\* false for an expired timer; the receive then needs a value in timer.C and
\* blocks when the select already took it.
TimerResetEnabled(t) == t \in {"running", "fired"}

ConsumerTimerReset ==
    /\ pcCons = "timer"
    /\ TimerResetEnabled(timer)
    /\ timer' = "running"
    /\ firedInFlush' = FALSE
    /\ pcCons' = "top"
    /\ UNCHANGED <<cfgV, reqV, mainV, isNode2, prodV, closeCalls, chanV, r,
                   processedAtLeastOneBatch, delivered, moreLog, cbFailedAt, timedOut,
                   pollCancelled, pollV, pcCloser, wg, egErr, errLog, ctxDone, killed>>

\* The consumer is in the flush of a full batch (the callback invocation of
\* lines 459-465) while the channel holds a row for it.
InFlushWithRowWaiting ==
    /\ pcCons = "top"
    /\ r # Nil
    /\ BatchFull(r)
    /\ rowChan # <<>>

\* The runtime fires the timer: a value is put in timer.C.
TimerFire ==
    /\ pc = "wait"
    /\ pcCons \in {"top", "select", "timer"}
    /\ timer = "running"
    /\ timer' = "fired"
    /\ firedInFlush' = InFlushWithRowWaiting
    /\ UNCHANGED <<cfgV, reqV, mainV, isNode2, prodV, closeCalls, chanV, pcCons, r,
                   processedAtLeastOneBatch, delivered, moreLog, cbFailedAt, timedOut,
                   pollCancelled, pollV, pcCloser, wg, egErr, errLog, ctxDone, killed>>

----------------------------------------------------------------------------
\* Poller goroutine: pollForClosedConnection(pollCtx, c)

\* return of pollForClosedConnection with error e, for the given cause
PollerReturn(cause, e) ==
    /\ pcPoll' = "done"
    /\ pollExit' = cause
    /\ pollRet' = e
    /\ EgReturn(e)

\* What the checks before the loop find: a TCP connection with an inode and
\* a local port ("tcp"), or one of the three early returns.
StartChecks == {"tcp", "notTCP", "noInode", "noPort"}

\* Not a TCP connection, or no inode, or no local port: return nil.
PollerStart ==
    /\ pcPoll = "start"
    /\ \E c \in StartChecks :
          IF c = "tcp"
          THEN /\ pcPoll' = "poll"
               /\ UNCHANGED <<pollExit, pollRet, egErr, errLog, ctxDone>>
          ELSE PollerReturn(c, NoErr)
    /\ UNCHANGED <<cfgV, reqV, mainV, isNode2, prodV, closeCalls, chanV, consV,
                   polled, pcCloser, wg, killed>>

PollResultErrorFails(st) ==
    CASE st = "Broken" -> "ErrConnectionWasClosed"
      [] st = "Error" -> "ErrConnectionWasClosed"
      [] OTHER -> "loop"

\* What the poller returns for a socket state, "loop" when it keeps polling
PollResult(st) ==
    CASE st = "Broken" -> "ErrConnectionWasClosed"
      [] st = "Error" -> NoErr
      [] OTHER -> "loop"

\* The context the poller runs with is done: the scope is cancelled, or the
\* consumer's deferred cancelF() cancelled the sub-context.
PollCtxDoneScopeOnly == ctxDone

PollCtxDone == ctxDone \/ pollCancelled

\* select { case <-ctx.Done(): return nil; ... }: the poller's context is
\* done and the select takes that case.
PollerCtxDone ==
    /\ pcPoll = "poll"
    /\ PollCtxDone
    /\ PollerReturn("ctx", NoErr)
    /\ UNCHANGED <<cfgV, reqV, mainV, isNode2, prodV, closeCalls, chanV, consV,
                   polled, pcCloser, wg, killed>>

\* select { ...; case <-timer.C: } and the socket state check that follows
\* the timer wake-up; Established re-arms the timer and loops.
PollerCheck ==
    /\ pcPoll = "poll"
    /\ polled' = TRUE
    /\ \E st \in {"Established", "Broken", "Error"} :
          IF PollResult(st) = "loop"
          THEN UNCHANGED <<pcPoll, pollExit, pollRet, egErr, errLog, ctxDone>>
          ELSE PollerReturn(st, PollResult(st))
    /\ UNCHANGED <<cfgV, reqV, mainV, isNode2, prodV, closeCalls, chanV, consV,
                   pcCloser, wg, killed>>

\* One wake-up of the poller's loop.
PollerWake == PollerCtxDone \/ PollerCheck

----------------------------------------------------------------------------
\* Closer goroutine: wg.Wait(); return rowIter.Close(ctx)
Closer ==
    /\ pcCloser = "wait"
    /\ wg = 0
    /\ closeCalls' = closeCalls + 1
    /\ pcCloser' = "done"
    /\ \E cerr \in {NoErr, "ErrClose"} : EgReturn(cerr)
    /\ UNCHANGED <<cfgV, reqV, mainV, isNode2, prodV, chanV, consV, pollV, wg,
                   killed>>

\* The context is cancelled from outside the errgroup (the query is killed
\* through the process list, or the session context is cancelled).
Kill ==
    /\ pc = "wait"
    /\ ~ctxDone
    /\ ctxDone' = TRUE
    /\ killed' = TRUE
    /\ UNCHANGED <<cfgV, reqV, mainV, isNode2, prodV, closeCalls, chanV, consV,
                   pollV, pcCloser, wg, egErr, errLog>>

----------------------------------------------------------------------------
Next ==
    \/ Prologue
    \/ BeginQuery
    \/ QueryNode
    \/ Spawn
    \/ Wait
    \/ SetConnStatusFlags
    \/ FinalCallback
    \/ ProducerNext
    \/ ProducerNext2
    \/ ProducerSend
    \/ ConsumerTop
    \/ ConsumerCtxDone
    \/ ConsumerChanClosed
    \/ ConsumerRecv
    \/ ConsumerTimeout
    \/ ConsumerTimerReset
    \/ TimerFire
    \/ PollerStart
    \/ PollerWake
    \/ Closer
    \/ Kill

Spec == Init /\ [][Next]_vars

\* Scheduling: the Go scheduler runs every goroutine that can take a step,
\* so doQuery itself and each of the four goroutines keep taking steps while
\* they have one.  The poller is only promised its ctx.Done() case: the
\* socket may stay Established for ever.  The timer's firing and the
\* cancellation from outside are not promised to happen.
MainStep ==
    \/ Prologue
    \/ BeginQuery
    \/ QueryNode
    \/ Spawn
    \/ Wait
    \/ SetConnStatusFlags
    \/ FinalCallback

ProducerStep == ProducerNext \/ ProducerNext2 \/ ProducerSend

ConsumerStep ==
    \/ ConsumerTop
    \/ ConsumerCtxDone
    \/ ConsumerChanClosed
    \/ ConsumerRecv
    \/ ConsumerTimeout
    \/ ConsumerTimerReset

Fairness ==
    /\ WF_vars(MainStep)
    /\ WF_vars(ProducerStep)
    /\ WF_vars(ConsumerStep)
    /\ WF_vars(PollerStart)
    /\ WF_vars(PollerCtxDone)
    /\ WF_vars(Closer)

InitLive == InitWith(LiveRows, {"ComQuery"}, {Stmts(1)}) /\ SideIdle

FairSpec == InitLive /\ [][Next]_vars /\ Fairness

----------------------------------------------------------------------------
\* The caller of ComMultiQuery: after a statement that succeeded it calls the
\* handler again with the returned remainder, on the same connection, until
\* the remainder is empty.
NextStatement ==
    /\ pc = "done"
    /\ entry = "ComMultiQuery"
    /\ retErr = NoErr
    /\ ReturnedRemainder # <<>>
    /\ query' = ReturnedRemainder
    /\ remainder' = <<>>
    /\ more' = FALSE
    /\ moreLog' = <<>>
    /\ oldFlags' = statusFlags
    /\ sessAutocommit' = NotRead
    /\ sessTx' = FALSE
    /\ pc' = "start"
    /\ err' = NoErr
    /\ retErr' = NoErr
    /\ ctxNil' = FALSE
    /\ beginRes' = "none"
    /\ engineCalled' = FALSE
    /\ endQueryCalls' = 0
    /\ finishLog' = <<>>
    /\ isNode2' = FALSE
    /\ pcProd' = "idle"
    /\ prodRow' = Nil
    /\ iterRows' = <<>>
    /\ iterEnd' = "none"
    /\ closeCalls' = 0
    /\ rowChan' = <<>>
    /\ chanClosed' = FALSE
    /\ pcCons' = "idle"
    /\ r' = Nil
    /\ processedAtLeastOneBatch' = FALSE
    /\ timer' = "idle"
    /\ delivered' = <<>>
    /\ cbFailedAt' = 0
    /\ timedOut' = FALSE
    /\ firedInFlush' = FALSE
    /\ pcPoll' = "idle"
    /\ polled' = FALSE
    /\ pollExit' = "none"
    /\ pollRet' = "none"
    /\ pollCancelled' = FALSE
    /\ pcCloser' = "idle"
    /\ wg' = 0
    /\ egErr' = NoErr
    /\ errLog' = <<>>
    /\ ctxDone' = FALSE
    /\ killed' = FALSE
    /\ UNCHANGED <<readTimeout, iterCap, entry, ranLog, statusFlags, sideV>>

\* The runs of multi-statement requests: texts of up to MaxStmts statements
\* (ComMultiQuery starts with the longest one and meets the shorter ones as
\* remainders), iterators of at most one batch of rows, on a handler without
\* read timeout.
MaxStmts == 2

Entries == {"ComQuery", "ComMultiQuery", "ComStmtExecute"}

InitMulti ==
    /\ InitWith(rowsBatch, Entries, {Stmts(n) : n \in 1..MaxStmts})
    /\ entry = "ComMultiQuery" => Len(query) = MaxStmts
    /\ readTimeout = 0
    /\ statusFlags = {"Autocommit"}
    /\ SideIdle

NextMulti == Next \/ NextStatement

SpecMulti == InitMulti /\ [][NextMulti]_vars

----------------------------------------------------------------------------
\* Handler.ConnectionClosed

Locks == {"l1", "l2"}
Tables == {"t1"}

\* No query is run.
QueryIdle ==
    /\ InitWith(MaxRows, {"ComQuery"}, {Stmts(1)})
    /\ readTimeout = 0
    /\ statusFlags = {"Autocommit"}

\* The connection is closed: it may hold locks and have tables locked, and
\* the handler may have a server event listener.
InitClose ==
    /\ QueryIdle
    /\ pcClose = "start"
    /\ hasSel \in BOOLEAN
    /\ heldLocks \in SUBSET Locks
    /\ tablesLocked \in SUBSET Tables
    /\ sessionOpen = TRUE
    /\ connKnown = TRUE
    /\ closeLog = <<>>
    /\ BindIdle
    /\ ListIdle
    /\ LogIdle

\* ctx, err := h.sm.NewContextWithQuery(c, ""): without a context both
\* errors are logged and the body ends; the deferred calls follow.
CloseNewContext ==
    /\ pcClose = "start"
    /\ \E ok \in BOOLEAN :
          pcClose' = IF ok THEN "release" ELSE "closeSession"
    /\ UNCHANGED <<notCloseV, hasSel, heldLocks, tablesLocked, sessionOpen,
                   connKnown, closeLog>>

\* _, err = h.e.LS.ReleaseAll(ctx); an error is logged.
CloseReleaseAll ==
    /\ pcClose = "release"
    /\ closeLog' = Append(closeLog, "ReleaseAll")
    /\ \E left \in SUBSET heldLocks : heldLocks' = left
    /\ pcClose' = "unlock"
    /\ UNCHANGED <<notCloseV, hasSel, tablesLocked, sessionOpen, connKnown>>

\* h.e.Analyzer.Catalog.UnlockTables(ctx, c.ConnectionID); an error is logged.
CloseUnlockTables ==
    /\ pcClose = "unlock"
    /\ closeLog' = Append(closeLog, "UnlockTables")
    /\ \E left \in SUBSET tablesLocked : tablesLocked' = left
    /\ pcClose' = "closeSession"
    /\ UNCHANGED <<notCloseV, hasSel, heldLocks, sessionOpen, connKnown>>

\* defer h.e.CloseSession(c.ConnectionID): the last defer runs first.
CloseSession ==
    /\ pcClose = "closeSession"
    /\ closeLog' = Append(closeLog, "CloseSession")
    /\ sessionOpen' = FALSE
    /\ pcClose' = "removeConn"
    /\ UNCHANGED <<notCloseV, hasSel, heldLocks, tablesLocked, connKnown>>

\* defer h.sm.RemoveConn(c)
CloseRemoveConn ==
    /\ pcClose = "removeConn"
    /\ closeLog' = Append(closeLog, "RemoveConn")
    /\ connKnown' = FALSE
    /\ pcClose' = "metric"
    /\ UNCHANGED <<notCloseV, hasSel, heldLocks, tablesLocked, sessionOpen>>

\* The first defer: if h.sel != nil { h.sel.ClientDisconnected() }
CloseMetric ==
    /\ pcClose = "metric"
    /\ closeLog' = IF hasSel THEN Append(closeLog, "ClientDisconnected")
                   ELSE closeLog
    /\ pcClose' = "done"
    /\ UNCHANGED <<notCloseV, hasSel, heldLocks, tablesLocked, sessionOpen,
                   connKnown>>

NextClose ==
    \/ CloseNewContext
    \/ CloseReleaseAll
    \/ CloseUnlockTables
    \/ CloseSession
    \/ CloseRemoveConn
    \/ CloseMetric

SpecClose == InitClose /\ [][NextClose]_vars

----------------------------------------------------------------------------
\* bindingsToExprs

WireTypes ==
    {"Null", "Int8", "Uint8", "Int16", "Uint16", "Int24", "Uint24", "Int32",
     "Uint32", "Int64", "Uint64", "Float32", "Float64", "Timestamp", "Date",
     "Time", "Datetime", "Year", "Decimal", "Text", "Blob", "VarChar",
     "VarBinary", "Char", "Binary", "Bit", "Enum", "Set", "Tuple",
     "Geometry", "Json", "Expression"}

\* The raw bytes of a bind variable.
WireValues == {"7", "-7", "x"}

BindNames == {"a", "b"}

\* sqltypes.IsSigned, IsUnsigned, IsFloat, IsQuoted.  Year is an unsigned
\* integral type and Bit is not quoted.
IsSigned(t) == t \in {"Int8", "Int16", "Int24", "Int32", "Int64"}
IsUnsigned(t) ==
    t \in {"Uint8", "Uint16", "Uint24", "Uint32", "Uint64", "Year"}
IsFloat(t) == t \in {"Float32", "Float64"}
IsQuoted(t) ==
    t \in {"Timestamp", "Date", "Time", "Datetime", "Text", "Blob", "VarChar",
           "VarBinary", "Char", "Binary", "Enum", "Set", "Geometry", "Json"}

\* strconv.ParseInt(s, 0, 64), ParseUint(s, 0, 64), ParseFloat(s, 64) on
\* the values above.
ParseIntOk(v) == v \in {"7", "-7"}
ParseUintOk(v) == v \in {"7"}
ParseFloatOk(v) == v \in {"7", "-7"}

\* sqltypes.NewValue(v.Type, v.Value): the error it returns, or NoErr.  It
\* checks that a number parses and takes the bytes of a quoted type, of Bit
\* and of Null as they are; every other type is invalid.
NewValue(t, v) ==
    IF IsSigned(t) THEN (IF ParseIntOk(v) THEN NoErr ELSE "strconv")
    ELSE IF IsUnsigned(t) THEN (IF ParseUintOk(v) THEN NoErr ELSE "strconv")
    ELSE IF IsFloat(t) \/ t = "Decimal"
      THEN (IF ParseFloatOk(v) THEN NoErr ELSE "strconv")
    ELSE IF IsQuoted(t) \/ t = "Bit" \/ t = "Null" THEN NoErr
    ELSE "invalid type"

BitTypeMaxBits == 64

\* The type of the literal made for wire type t and bytes v, in the order
\* of the switch; NoType in the default case.
NoType == [kind |-> "none"]
LiteralType(t, v) ==
    IF t = "Year" THEN [kind |-> "Year"]
    ELSE IF IsSigned(t) THEN [kind |-> "Int64"]
    ELSE IF IsUnsigned(t) THEN [kind |-> "Uint64"]
    ELSE IF IsFloat(t) THEN [kind |-> "Float64"]
    ELSE IF t = "Decimal" THEN [kind |-> "InternalDecimal"]
    ELSE IF t = "Bit" THEN [kind |-> "Bit", bits |-> BitTypeMaxBits]
    ELSE IF t = "Null" THEN [kind |-> "Null"]
    ELSE IF t \in {"Blob", "VarBinary", "Binary"}
      THEN [kind |-> "Binary", base |-> t, length |-> Len(v)]
    ELSE IF t \in {"Text", "VarChar", "Char"}
      THEN [kind |-> "String", base |-> t, length |-> Len(v)]
    ELSE IF t \in {"Date", "Datetime", "Timestamp"}
      THEN [kind |-> "Datetime", base |-> t]
    ELSE IF t = "Time" THEN [kind |-> "Time"]
    ELSE NoType

\* The cases of the switch that call a Create... or Convert function whose
\* error is returned; the Null case calls none.
Converts(t) == LiteralType(t, "") # NoType /\ t # "Null"

\* expression.NewLiteral(v, t)
NewLiteral(v, t) == [value |-> v, type |-> t]

InitBind ==
    /\ QueryIdle
    /\ CloseIdle
    /\ ListIdle
    /\ LogIdle
    /\ \E names \in SUBSET BindNames :
          bindings \in [names -> [Type : WireTypes, Value : WireValues]]
    /\ bindRes = <<>>
    /\ pcBind = "loop"
    /\ bindRet = Nil
    /\ bindErr = NoErr
    /\ failedKey = {}

\* return nil, err inside the loop
BindFail(k, e) ==
    /\ bindRet' = Nil
    /\ bindErr' = e
    /\ failedKey' = {k}
    /\ pcBind' = "done"
    /\ UNCHANGED <<notBindV, bindings, bindRes>>

\* res[k] = expression.NewLiteral(...)
BindSet(k, lit) ==
    /\ bindRes' = [x \in DOMAIN bindRes \cup {k} |-> IF x = k THEN lit ELSE bindRes[x]]
    /\ UNCHANGED <<notBindV, bindings, pcBind, bindRet, bindErr,
                   failedKey>>

\* One iteration of `for k, v := range bindings`; the order is not fixed.
BindOne ==
    /\ pcBind = "loop"
    /\ \E k \in DOMAIN bindings \ DOMAIN bindRes :
         LET t == bindings[k].Type
             v == bindings[k].Value
         IN  IF NewValue(t, v) # NoErr THEN BindFail(k, NewValue(t, v))
             ELSE IF LiteralType(t, v) = NoType
               THEN BindFail(k, "ErrUnsupportedOperation")
             ELSE IF t = "Null"
               THEN BindSet(k, NewLiteral(Nil, LiteralType(t, v)))
             ELSE \/ BindSet(k, NewLiteral(v, LiteralType(t, v)))
                  \/ Converts(t) /\ BindFail(k, "convert")

\* return res, nil
BindReturn ==
    /\ pcBind = "loop"
    /\ DOMAIN bindRes = DOMAIN bindings
    /\ bindRet' = [nil |-> FALSE, m |-> bindRes]
    /\ bindErr' = NoErr
    /\ pcBind' = "done"
    /\ UNCHANGED <<notBindV, bindings, bindRes, failedKey>>

NextBind ==
    \/ BindOne
    \/ BindReturn

SpecBind == InitBind /\ [][NextBind]_vars

----------------------------------------------------------------------------
\* ShowProcessList.RowIter

\* The names of progress entries and of partitions, in the order of Go's
\* string comparison.
Names == <<"p1", "p2", "p3">>
NameSet == {Names[i] : i \in DOMAIN Names}
Rank(n) == CHOOSE i \in DOMAIN Names : Names[i] = n

\* Longest snapshot.
MaxProcs == 2

\* A process of the snapshot: Progress maps a name to the names of its
\* partitions (PartitionsProgress).
ProgressMaps ==
    UNION {[ns -> {{}, {"p1", "p2"}}] : ns \in SUBSET {"p2", "p3"}}
Processes ==
    [Connection : {1}, Database : {"", "db"}, Command : {"Query", "Sleep"},
     Progress : ProgressMaps]

\* All orders in which a map with key set S may be iterated.
Orders(S) ==
    {o \in [1..Cardinality(S) -> S] : \A i, j \in DOMAIN o :
                                          i # j => o[i] # o[j]}

\* sort.Strings: insertion of each element before the first greater one.
SortStringsNot(s) == s
SortInsert(sorted, n) ==
    LET k == Cardinality({i \in DOMAIN sorted : Rank(sorted[i]) <= Rank(n)})
    IN  SubSeq(sorted, 1, k) \o <<n>> \o SubSeq(sorted, k + 1, Len(sorted))
RECURSIVE SortStrings(_)
SortStrings(s) ==
    IF s = <<>> THEN <<>>
    ELSE SortInsert(SortStrings(SubSeq(s, 1, Len(s) - 1)), s[Len(s)])

\* progress.String() and partitionProgress.String(): the text starts with
\* the name.
ProgressString(name) == <<name, " (progress)">>
PartitionString(name) == <<name, " (partition)">>

\* The tree printer's String(): the node's line, then one line for each
\* child, the last one marked.  A text is a sequence of pieces.
RECURSIVE TreeChildren(_)
TreeChildren(children) ==
    IF children = <<>> THEN <<>>
    ELSE (IF Len(children) = 1 THEN <<" +- ">> ELSE <<" |- ">>)
         \o Head(children) \o <<"\n">> \o TreeChildren(Tail(children))
TreePrinterString(node, children) == node \o <<"\n">> \o TreeChildren(children)

\* strings.Join(status, "")
RECURSIVE Join(_)
Join(status) ==
    IF status = <<>> THEN <<>> ELSE Head(status) \o Join(Tail(status))

\* The status of one progress entry, its partitions iterated in order parts.
StatusOf(name, parts) ==
    LET byName == SortStrings(parts)
        children == [i \in DOMAIN byName |-> PartitionString(byName[i])]
    IN  TreePrinterString(<<"\n">> \o ProgressString(name), children)

NULL == [null |-> TRUE]

\* process.toRow
toRow(p) ==
    [id |-> p.id, user |-> p.user, host |-> p.host,
     db |-> IF p.db # "" THEN [null |-> FALSE, s |-> p.db] ELSE NULL,
     command |-> p.command, time |-> p.time, state |-> p.state,
     info |-> p.info]

InitList ==
    /\ QueryIdle
    /\ CloseIdle
    /\ BindIdle
    /\ LogIdle
    /\ \E n \in 0..MaxProcs : processes \in [1..n -> Processes]
    /\ listRows = <<>>
    /\ pcList = "loop"

\* One iteration of `for i, proc := range processes`: the names and the
\* partitions come in the order the maps are iterated.
ListProcess ==
    /\ pcList = "loop"
    /\ Len(listRows) < Len(processes)
    /\ LET proc == processes[Len(listRows) + 1]
       IN  \E order \in Orders(DOMAIN proc.Progress) :
           \E parts \in [DOMAIN proc.Progress ->
                           UNION {Orders(S) : S \in SUBSET NameSet}] :
             /\ \A n \in DOMAIN proc.Progress :
                  parts[n] \in Orders(proc.Progress[n])
             /\ LET names == SortStrings(order)
                    status == [i \in DOMAIN names |->
                                 StatusOf(names[i], parts[names[i]])]
                    shown == IF Len(status) = 0 /\ proc.Command = "Query"
                             THEN <<<<"running">>>> ELSE status
                IN  listRows' = Append(listRows,
                        toRow([id |-> proc.Connection, user |-> "user",
                               time |-> 0, state |-> Join(shown),
                               command |-> proc.Command, host |-> "host",
                               info |-> "query", db |-> proc.Database]))
    /\ UNCHANGED <<notListV, processes, pcList>>

\* return sql.RowsToRowIter(rows...), nil
ListReturn ==
    /\ pcList = "loop"
    /\ Len(listRows) = Len(processes)
    /\ pcList' = "done"
    /\ UNCHANGED <<notListV, processes, listRows>>

NextList ==
    \/ ListProcess
    \/ ListReturn

SpecList == InitList /\ [][NextList]_vars

----------------------------------------------------------------------------
\* doQuery: the query rendered for the logger

\* Longest query text, in bytes.
MaxQueryLen == 4

\* The bytes of a query text: white space, a letter, and the two bytes of
\* one character outside ASCII.
Whitespace == {" ", "\t", "\n"}
Bytes == Whitespace \cup {"a", "e1", "e2"}

\* The texts that are valid UTF-8: a first byte e1 is followed by e2, and
\* e2 follows nothing else.
QueryTexts ==
    {q \in UNION {[1..n -> Bytes] : n \in 0..MaxQueryLen} :
       /\ \A i \in DOMAIN q : q[i] = "e1" => (i < Len(q) /\ q[i + 1] = "e2")
       /\ \A i \in DOMAIN q : q[i] = "e2" => (i > 1 /\ q[i - 1] = "e1")}

LoggedQueryLens == {-1, 0, 1, 2}

\* queryLoggingRegex.ReplaceAll(query, " "): every longest run of white
\* space becomes one space.
RECURSIVE DropWhitespace(_)
DropWhitespace(q) ==
    IF q # <<>> /\ Head(q) \in Whitespace THEN DropWhitespace(Tail(q)) ELSE q
RECURSIVE ReplaceAll(_)
ReplaceAll(q) ==
    IF q = <<>> THEN <<>>
    ELSE IF Head(q) \in Whitespace
      THEN <<" ">> \o ReplaceAll(DropWhitespace(q))
    ELSE <<Head(q)>> \o ReplaceAll(Tail(q))

\* base64.StdEncoding.EncodeToString([]byte(query))
Base64(q) == [base64 |-> TRUE, of |-> q]
Plain(q) == [base64 |-> FALSE, of |-> q]

Ellipsis == <<".", ".", ".">>

InitLog ==
    /\ QueryIdle
    /\ CloseIdle
    /\ BindIdle
    /\ ListIdle
    /\ logQuery \in QueryTexts
    /\ encodeLoggedQuery \in BOOLEAN
    /\ maxLoggedQueryLen \in LoggedQueryLens
    /\ queryStr = <<>>
    /\ loggerField = NoField
    /\ pcLog = "render"

\* var queryStr string; if h.encodeLoggedQuery { ... } else { ... }
LogRender ==
    /\ pcLog = "render"
    /\ queryStr' =
         IF encodeLoggedQuery THEN Base64(logQuery)
         ELSE LET str == ReplaceAll(logQuery)
              IN  IF maxLoggedQueryLen > 0 /\ Len(str) > maxLoggedQueryLen
                  THEN Plain(SubSeq(str, 1, maxLoggedQueryLen) \o Ellipsis)
                  ELSE Plain(str)
    /\ pcLog' = "attach"
    /\ UNCHANGED <<notLogV, logQuery, encodeLoggedQuery, maxLoggedQueryLen,
                   loggerField>>

\* if h.encodeLoggedQuery || h.maxLoggedQueryLen >= 0 { ctx.SetLogger(...) }
LogAttach ==
    /\ pcLog = "attach"
    /\ loggerField' =
         IF encodeLoggedQuery \/ maxLoggedQueryLen >= 0
         THEN [attached |-> TRUE, query |-> queryStr]
         ELSE loggerField
    /\ pcLog' = "done"
    /\ UNCHANGED <<notLogV, logQuery, encodeLoggedQuery, maxLoggedQueryLen,
                   queryStr>>

NextLog ==
    \/ LogRender
    \/ LogAttach

SpecLog == InitLog /\ [][NextLog]_vars

----------------------------------------------------------------------------
\* Properties

RECURSIVE Flatten(_)
\* The rows of a sequence of results, concatenated in order
Flatten(batches) ==
    IF batches = <<>> THEN <<>>
    ELSE Head(batches).rows \o Flatten(Tail(batches))

\* The number of rows of each delivered result, in call order
BatchSizes == [i \in 1..Len(delivered) |-> Len(delivered[i].rows)]

RECURSIVE ExpectedSizes(_)
\* Batch sizes for n rows still to deliver: full batches, then the rest
ExpectedSizes(n) ==
    IF n = 0 THEN <<>>
    ELSE IF n >= rowsBatch THEN <<rowsBatch>> \o ExpectedSizes(n - rowsBatch)
    ELSE <<n>>

\* The rows returned by Next, in wire form
WireRows == [i \in 1..Len(iterRows) |-> rowToSQL(iterRows[i])]

DataOnly == ~HasOk(iterRows)
Returned == pc = "done"
Succeeded == pc = "done" /\ retErr = NoErr
IteratorReturned == pcProd # "idle"
\* BeginQuery registered the query
Registered == beginRes = "ok"

\* C1: for an iterator of N data rows that ends with EOF, with no error and
\* no cancellation, doQuery has called the callback with batches of
\* rowsBatch rows and a last batch of N mod rowsBatch rows when that is not
\* zero; with N = 0 it has called it once with no rows; and a call with no
\* rows never follows a call with rows.
C1_Batching ==
    DataOnly =>
      /\ \A i \in 2..Len(delivered) : Len(delivered[i].rows) > 0
      /\ (Succeeded /\ ~killed) =>
            /\ iterEnd = "EOF"
            /\ BatchSizes = (IF Len(iterRows) = 0 THEN <<0>>
                             ELSE ExpectedSizes(Len(iterRows)))

C1_Witness ==
    /\ Succeeded /\ Registered /\ ~killed /\ DataOnly
    /\ Len(iterRows) > rowsBatch
    /\ Len(iterRows) % rowsBatch # 0
    /\ Len(delivered) >= 2

\* C2: in a query that returned no error, the rows passed to the callback,
\* concatenated in call order, are the rows returned by Next.
C2_AllRowsDelivered ==
    (Succeeded /\ Registered /\ DataOnly) => Flatten(delivered) = WireRows

\* C3: when doQuery returns after the engine returned an iterator, Close was
\* called exactly once, on the Row path and on the Row2 path.
C3_CloseOnce ==
    (Returned /\ Registered /\ IteratorReturned) => closeCalls = 1

C5_ErrorEndsQuery ==
    (Returned /\ Registered /\ retErr # NoErr) => endQueryCalls = 1

\* C6: when BeginQuery returns an error the engine is not called, no
\* goroutine is started, and doQuery returns that error.
C6_BeginErrorStops ==
    beginRes = "err" =>
      /\ ~engineCalled
      /\ pcProd = "idle" /\ pcCons = "idle" /\ pcPoll = "idle"
      /\ pcCloser = "idle"
      /\ Returned => retErr = "ErrBegin"

\* C7: in a successful query the callback is not called once the status
\* flags have been written.
C7_FlagsAfterLastCallback ==
    [][(Registered /\ pc = "final" /\ pc' = "done" /\ retErr' = NoErr)
          => delivered' = delivered]_vars

\* The errors the producer or the poller can have given the group before
\* the consumer returns
EarlierErrors == {"ErrIter", "ErrClose", "ErrConnectionWasClosed"}

\* C8 as stated: when the callback returned an error, doQuery returns that
\* error.
C8_CallbackErrorReturned ==
    (Returned /\ Registered /\ cbFailedAt # 0) => retErr = "ErrCallback"

\* C8, amended: after the callback returned an error it is not called again,
\* the scope is cancelled once the consumer returned, a producer blocked on
\* a send can leave, and doQuery returns with the producer stopped and with
\* an error: the callback's, unless the producer or the poller had given
\* the group an error before.
C8_CallbackErrorStops ==
    cbFailedAt # 0 =>
      /\ Len(delivered) = cbFailedAt
      /\ pcCons = "done"
      /\ pc \in {"wait", "done"}
      /\ pc = "wait" => (ctxDone /\ egErr \in {"ErrCallback"} \cup EarlierErrors)
      /\ pcProd = "send" => ENABLED ProducerSend
      /\ Returned => /\ retErr \in {"ErrCallback"} \cup EarlierErrors
                     /\ pcProd = "done"

C8_Witness ==
    /\ Registered
    /\ cbFailedAt # 0
    /\ egErr = "ErrCallback"
    /\ pcProd = "send"
    /\ Len(rowChan) = rowChanCap

\* C9 as stated: after the consumer's timeout doQuery returns ErrRowTimeout
\* with the iterator closed and EndQuery called.
C9_TimeoutReturned ==
    (Returned /\ Registered /\ timedOut) =>
      /\ retErr = "ErrRowTimeout"
      /\ closeCalls >= 1
      /\ endQueryCalls = 1

\* C9, amended: with a read timeout, the consumer that takes the timer case
\* returns ErrRowTimeout and the scope is cancelled; doQuery returns an
\* error, ErrRowTimeout unless the producer or the poller had given the
\* group an error before, with the iterator closed and EndQuery called.
C9_TimeoutStops ==
    /\ (readTimeout > 0 /\ timer = "drained") => timedOut
    /\ timedOut =>
         /\ readTimeout > 0
         /\ pcCons = "done"
         /\ ctxDone
         /\ egErr \in {"ErrRowTimeout"} \cup EarlierErrors
    /\ (Returned /\ timedOut) =>
         /\ retErr \in {"ErrRowTimeout"} \cup EarlierErrors
         /\ closeCalls >= 1
         /\ endQueryCalls = 1

C9_Witness ==
    /\ Returned /\ Registered /\ timedOut
    /\ retErr = "ErrRowTimeout"
    /\ iterRows = <<>>
    /\ closeCalls = 1
    /\ endQueryCalls = 1

\* C10: without a read timeout the consumer that took the timer case can
\* always reset the timer and go back to its select.
C10_TimerNoop ==
    (readTimeout = 0 /\ pcCons = "timer") => TimerResetEnabled(timer)

\* C11: the read timeout is per row: doQuery fails with ErrRowTimeout only
\* after the consumer waited longer than readTimeout for a row that was not
\* there; a timer that ran out while the consumer was inside a callback
\* invocation, with the next row already in the channel, never makes the
\* query fail.
C11_TimeoutOnlyWhenStarved ==
    (Registered /\ timedOut) => ~firedInFlush

\* The poller saw the socket Broken and its error is the group's first one.
BrokenFirst ==
    /\ Registered
    /\ pollExit = "Broken"
    /\ egErr = "ErrConnectionWasClosed"
    /\ pc # "panic"

\* What C12 promises at the return of doQuery.
BrokenReturned ==
    /\ retErr = "ErrConnectionWasClosed"
    /\ pcProd = "done"
    /\ pcCons = "done"
    /\ closeCalls >= 1

\* C12: when the poller sees the socket Broken before anyone else failed, it
\* returns ErrConnectionWasClosed and the scope is cancelled; the producer
\* and the consumer are then never stuck (each has returned or can take its
\* next step, which observes the cancellation), and doQuery returns
\* ErrConnectionWasClosed with the iterator closed.
C12_BrokenSocketStops ==
    BrokenFirst =>
      /\ pollRet = "ErrConnectionWasClosed"
      /\ ctxDone
      /\ pcProd = "send" => ENABLED ProducerSend
      /\ pcCons = "timer" => ENABLED ConsumerTimerReset
      /\ Returned => BrokenReturned

\* C14: pollForClosedConnection returns a non-nil error only when it saw the
\* socket Broken, and then ErrConnectionWasClosed; it returns nil without
\* any socket state lookup when the connection is not TCP, has no inode or no
\* local port; it returns nil when its context is cancelled or the lookup
\* reports Error.
C14_PollerReturn ==
    /\ pollRet \notin {"none", NoErr} =>
         (pollExit = "Broken" /\ pollRet = "ErrConnectionWasClosed")
    /\ pollExit \in {"notTCP", "noInode", "noPort"} =>
         (pollRet = NoErr /\ ~polled)
    /\ pollExit \in {"ctx", "Error"} => pollRet = NoErr
    /\ pollExit = "ctx" => PollCtxDone
    /\ pollExit \in {"Broken", "Error"} => polled
    /\ (pcPoll = "done") = (pollRet # "none")

C14_Witness ==
    /\ pcPoll = "done"
    /\ polled
    /\ pollExit = "Error"
    /\ pollRet = NoErr
    /\ egErr = NoErr
    /\ ~ctxDone

\* The goroutines of the query were started.
Started == pcProd # "idle"

AllGoroutinesDone ==
    /\ pcProd = "done"
    /\ pcCons = "done"
    /\ pcPoll = "done"
    /\ pcCloser = "done"

\* C15: doQuery goes on after eg.Wait only when producer, consumer, poller
\* and closer have all returned, and when one or more of them returned an
\* error, doQuery returns the one that was returned first in time.
C15_FirstErrorReturned ==
    /\ (Started /\ pc \in {"flags", "final", "done"}) => AllGoroutinesDone
    /\ (Returned /\ errLog # <<>>) => retErr = errLog[1]
    /\ errLog # <<>> => egErr = errLog[1]

C15_Witness ==
    /\ Returned
    /\ AllGoroutinesDone
    /\ Len(errLog) >= 2
    /\ errLog[2] # errLog[1]
    /\ retErr = errLog[1]

\* C13: the poller never keeps the query from completing.  The consumer's
\* return cancels the poller's context, and from the consumer's return on
\* eg.Wait and doQuery eventually return, whatever the socket state is.
C13_PollerNeverBlocks ==
    /\ [](pcCons = "done" => pollCancelled)
    /\ (pcCons = "done") ~> Returned

\* The poller, in its loop on a socket that is not broken, returned because
\* the consumer's return cancelled its context; the scope was not cancelled.
C13_Witness ==
    /\ pc = "wait"
    /\ pcCons = "done"
    /\ pcPoll = "done"
    /\ polled
    /\ pollExit = "ctx"
    /\ ~ctxDone
    /\ egErr = NoErr

\* C16: once the scope is cancelled, producer, consumer, poller and closer
\* all terminate and doQuery returns (or the consumer's panic ends the
\* process).
C16_CancelledTerminates ==
    (Started /\ ctxDone) ~> (pc \in {"done", "panic"})

\* C17: after a successful query the Autocommit bit of c.StatusFlags is set
\* iff the session variable autocommit converts to true, and the
\* InTransaction bit iff the session has an open transaction, whatever the
\* bits were before.
C17_FlagsReflectSession ==
    Succeeded =>
      /\ sessAutocommit # NotRead
      /\ ~ConvertToBool(sessAutocommit).err
      /\ ("Autocommit" \in statusFlags) = ConvertToBool(sessAutocommit).val
      /\ ("InTransaction" \in statusFlags) = sessTx

\* Both bits changed: Autocommit was set and is cleared, InTransaction was
\* clear and is set.
C17_Witness ==
    /\ Succeeded
    /\ oldFlags = {"Autocommit"}
    /\ sessAutocommit = IntVal(0)
    /\ sessTx
    /\ statusFlags = {"InTransaction"}

\* The number of statements of the request: statements are named by their
\* position, and the last one is at the end of what is left to run.
NStmts ==
    IF remainder # <<>> THEN remainder[Len(remainder)] ELSE query[Len(query)]

\* C18: every callback invocation of one doQuery call carries the same more
\* flag, true iff the mode is multi-statement and ParseOne left a non-empty
\* remainder; ComQuery and ComStmtExecute always pass false; the calls of
\* ComMultiQuery on the returned remainders run the statements once each, in
\* order, with more = true for all but the last.
C18_MoreFlag ==
    /\ Len(moreLog) = Len(delivered)
    /\ \A i \in 1..Len(moreLog) :
          moreLog[i] = (ModeOf(entry) = "MultiStmtModeOn" /\ remainder # <<>>)
    /\ entry \in {"ComQuery", "ComStmtExecute"} =>
          /\ Len(ranLog) <= 1
          /\ \A i \in 1..Len(moreLog) : moreLog[i] = FALSE
    /\ entry = "ComMultiQuery" =>
          /\ \A i \in 1..Len(ranLog) :
                /\ ranLog[i].stmt = <<i>>
                /\ ranLog[i].more = (i < NStmts)
          /\ (Succeeded /\ ReturnedRemainder = <<>>) => Len(ranLog) = NStmts

\* The last call of a multi-statement request has returned after two
\* callback invocations; every statement has run.
C18_Witness ==
    /\ entry = "ComMultiQuery"
    /\ Succeeded
    /\ ReturnedRemainder = <<>>
    /\ Len(ranLog) = MaxStmts
    /\ ranLog[1].more
    /\ ~ranLog[MaxStmts].more
    /\ Len(moreLog) >= 2

\* The iterator returned one OkResult row and then io.EOF, and the query ran
\* to its successful end without cancellation from outside.
SingleOkResultRun ==
    /\ Succeeded
    /\ ~killed
    /\ iterEnd = "EOF"
    /\ Len(iterRows) = 1
    /\ IsOkResult(iterRows[1])

\* C19: for an iterator that yields a single OkResult row with RowsAffected
\* a and InsertID i, whatever a is (0 and the batch size included), the
\* callback is invoked exactly once, with a result that carries a and i and
\* has no rows.
C19_OkResultOnce ==
    SingleOkResultRun =>
      /\ Len(delivered) = 1
      /\ delivered[1].affected = iterRows[1].affected
      /\ delivered[1].insertID = iterRows[1].insertID
      /\ delivered[1].rows = <<>>

\* RowsAffected equal to the batch size: the consumer delivers the result in
\* its flush and the final callback is skipped.
C19_Witness ==
    /\ SingleOkResultRun
    /\ iterRows[1].affected = rowsBatch
    /\ processedAtLeastOneBatch
    /\ Len(delivered) = 1
    /\ delivered[1].affected = rowsBatch

\* The iterator returned an OkResult row and a data row.
MixedIterator ==
    /\ HasOk(iterRows)
    /\ \E i \in 1..Len(iterRows) : ~IsOkResult(iterRows[i])

\* A result built from an OkResult (no Fields) that also holds rows.
MixedResult(res) == res # Nil /\ ~res.fields /\ res.rows # <<>>

\* C20: an iterator that yields an OkResult row and data rows, in either
\* order, is detected: no result that mixes OkResult fields with data rows
\* reaches the callback, and no query that read such rows to the end
\* returns success.
C20_MixDetected ==
    /\ \A i \in 1..Len(delivered) : ~MixedResult(delivered[i])
    /\ (Succeeded /\ ~killed /\ iterEnd = "EOF") => ~MixedIterator

\* The number of times ConnectionClosed made the call named step.
TimesCalled(step) ==
    Cardinality({i \in 1..Len(closeLog) : closeLog[i] = step})

TeardownSteps ==
    {"ReleaseAll", "UnlockTables", "CloseSession", "RemoveConn",
     "ClientDisconnected"}

\* C21: a ConnectionClosed that has returned has released the session's
\* locks, unlocked its tables, closed the engine session, removed the
\* connection and emitted the disconnect metric, each exactly once and the
\* metric last, whatever failed on the way.
C21_TeardownRunsAll ==
    (pcClose = "done" /\ hasSel) =>
      /\ \A step \in TeardownSteps : TimesCalled(step) = 1
      /\ closeLog[Len(closeLog)] = "ClientDisconnected"

\* The wire types of the coercion table.
Tabulated(t) ==
    \/ IsSigned(t) \/ IsUnsigned(t) \/ IsFloat(t)
    \/ t \in {"Decimal", "Bit", "Null", "Blob", "VarBinary", "Binary",
              "Text", "VarChar", "Char", "Date", "Datetime", "Timestamp",
              "Time"}

\* The kind of literal the table gives for a wire type.
TabulatedKind(t) ==
    CASE t = "Year" -> "Year"
      [] IsSigned(t) -> "Int64"
      [] IsUnsigned(t) /\ t # "Year" -> "Uint64"
      [] IsFloat(t) -> "Float64"
      [] t = "Decimal" -> "InternalDecimal"
      [] t = "Bit" -> "Bit"
      [] t = "Null" -> "Null"
      [] t \in {"Blob", "VarBinary", "Binary"} -> "Binary"
      [] t \in {"Text", "VarChar", "Char"} -> "String"
      [] t \in {"Date", "Datetime", "Timestamp"} -> "Datetime"
      [] t = "Time" -> "Time"

BindSucceeded == pcBind = "done" /\ bindErr = NoErr

\* A successful bindingsToExprs returns a literal of the tabulated type for
\* every name, and every binding's type is in the table.
BindTableHolds ==
    BindSucceeded =>
      /\ bindRet # Nil
      /\ DOMAIN bindRet.m = DOMAIN bindings
      /\ \A k \in DOMAIN bindings :
           LET t == bindings[k].Type
               lit == bindRet.m[k]
           IN  /\ Tabulated(t)
               /\ lit.type.kind = TabulatedKind(t)
               /\ lit.type.kind \in {"Binary", "String"} =>
                    lit.type.length = Len(bindings[k].Value)
               /\ lit.type.kind = "Bit" => lit.type.bits = BitTypeMaxBits

\* A failed bindingsToExprs returns no map, and UnsupportedOperation when
\* it failed at a binding whose type is not in the table.
BindFailureHolds ==
    (pcBind = "done" /\ bindErr # NoErr) =>
      /\ bindRet = Nil
      /\ \A k \in failedKey :
           ~Tabulated(bindings[k].Type) => bindErr = "ErrUnsupportedOperation"

\* C22: bindingsToExprs returns, for bindings whose types are all in the
\* coercion table and whose values convert, a map with the same names and
\* a literal of the tabulated type for each; otherwise it returns an error
\* and no map, and the error is UnsupportedOperation for a type that is not
\* in the table.
C22_BindingsCoerced == BindTableHolds /\ BindFailureHolds

\* The elements of S in sorted order.
RECURSIVE Sorted(_)
Sorted(S) ==
    IF S = {} THEN <<>>
    ELSE LET least == CHOOSE n \in S : \A m \in S : Rank(n) <= Rank(m)
         IN  <<least>> \o Sorted(S \ {least})

\* The tree-printed report of the progress entry name of process proc.
Report(proc, name) ==
    LET parts == Sorted(proc.Progress[name])
    IN  <<"\n">> \o ProgressString(name) \o <<"\n">>
        \o TreeChildren([i \in DOMAIN parts |-> PartitionString(parts[i])])

\* The state shown for process proc.
StateOf(proc) ==
    IF DOMAIN proc.Progress = {} /\ proc.Command = "Query" THEN <<"running">>
    ELSE LET names == Sorted(DOMAIN proc.Progress)
         IN  Join([i \in DOMAIN names |-> Report(proc, names[i])])

\* C23: ShowProcessList returns one row for each process of the snapshot,
\* in the snapshot's order; the row's database is NULL when the process has
\* none; its state is "running" for a Query without progress entries and
\* otherwise the reports of its progress entries in the order of their
\* names, each with its partitions in sorted order, whatever the order in
\* which the maps were iterated.
C23_ProcessListRows ==
    /\ Len(listRows) <= Len(processes)
    /\ pcList = "done" => Len(listRows) = Len(processes)
    /\ \A i \in DOMAIN listRows :
         LET proc == processes[i]
             row == listRows[i]
         IN  /\ row.id = proc.Connection
             /\ row.command = proc.Command
             /\ row.db = IF proc.Database = "" THEN NULL
                         ELSE [null |-> FALSE, s |-> proc.Database]
             /\ row.state = StateOf(proc)

\* Two processes were listed: the second has two progress entries, one of
\* them with two partitions, the first is a Query without progress and
\* without database.
C23_Witness ==
    /\ pcList = "done"
    /\ Len(processes) = 2
    /\ processes[1].Progress = <<>>
    /\ processes[1].Command = "Query"
    /\ processes[1].Database = ""
    /\ listRows[1].state = <<"running">>
    /\ listRows[1].db = NULL
    /\ DOMAIN processes[2].Progress = {"p2", "p3"}
    /\ processes[2].Progress["p3"] = {"p1", "p2"}
    /\ listRows[2].db # NULL

\* The text with every white-space byte that follows a white-space byte
\* removed and the others turned into spaces.
Collapsed(q) ==
    LET keep == {i \in DOMAIN q :
                   q[i] \in Whitespace => (i = 1 \/ q[i - 1] \notin Whitespace)}
        at(k) == CHOOSE i \in keep : Cardinality({j \in keep : j <= i}) = k
    IN  [k \in 1..Cardinality(keep) |->
           IF q[at(k)] \in Whitespace THEN " " ELSE q[at(k)]]

\* The characters of a text: every byte but the second of a character.
Characters(q) == Cardinality({i \in DOMAIN q : q[i] # "e2"})

\* The first n characters of a text.
FirstCharacters(q, n) ==
    LET ends == {k \in 0..Len(q) :
                   /\ Characters(SubSeq(q, 1, k)) = n
                   /\ k < Len(q) => q[k + 1] # "e2"}
    IN  SubSeq(q, 1, CHOOSE k \in ends : TRUE)

\* C24: a negative maxLoggedQueryLen attaches no query field; with
\* encodeLoggedQuery off the field is the text with its runs of white space
\* collapsed, cut to maxLoggedQueryLen characters and "..." when
\* maxLoggedQueryLen > 0 and the text has more characters.
C24_LoggedQuery ==
    pcLog = "done" =>
      /\ maxLoggedQueryLen < 0 => loggerField = NoField
      /\ (~encodeLoggedQuery /\ maxLoggedQueryLen >= 0) =>
           LET str == Collapsed(logQuery)
           IN  loggerField =
                 [attached |-> TRUE,
                  query |-> Plain(
                    IF maxLoggedQueryLen > 0
                       /\ Characters(str) > maxLoggedQueryLen
                    THEN FirstCharacters(str, maxLoggedQueryLen) \o Ellipsis
                    ELSE str)]

\* C25: a doQuery that returns no error has read the iterator to its end
\* and has passed to the callback as many rows as the iterator returned: a
\* producer stopped by a cancellation does not end in success.
C25_SuccessIsComplete ==
    (Succeeded /\ IteratorReturned) =>
      /\ iterEnd = "EOF"
      /\ DataOnly => Len(Flatten(delivered)) = Len(iterRows)

\* C26: when eg.Wait yields an error, doQuery returns it in the same step
\* with the status flags and the delivered results as they were; nothing is
\* delivered and no flag is changed after doQuery has returned; and a
\* doQuery that returned eg.Wait's error has the status flags it started
\* with and has not read the session.
C26_FailedWaitFrame ==
    /\ [][(pc = "wait" /\ pc' \in {"flags", "done"} /\ egErr # NoErr) =>
            /\ pc' = "done"
            /\ retErr' = egErr
            /\ statusFlags' = statusFlags
            /\ delivered' = delivered]_vars
    /\ [][pc = "done" => (delivered' = delivered /\ statusFlags' = statusFlags)]_vars
    /\ []((Returned /\ egErr # NoErr) =>
            /\ retErr = egErr
            /\ statusFlags = oldFlags
            /\ sessAutocommit = NotRead)

\* doQuery returned eg.Wait's error with a partially filled batch in r that
\* was not delivered, after one batch had been delivered.
C26_Witness ==
    /\ Returned
    /\ egErr # NoErr
    /\ retErr = egErr
    /\ r # Nil
    /\ Len(r.rows) > 0
    /\ Len(delivered) = 1
    /\ statusFlags = oldFlags

\* C27: once the producer has returned an error of the iterator, no result
\* is passed to the callback any more.
C27_NoBatchAfterIterError ==
    [][(pcProd = "done" /\ iterEnd = "ERR") => delivered' = delivered]_vars

\* C28: when doQuery has returned after it installed the metrics hook, the
\* hook has run exactly once, and it has added to QueryErrorCounter if
\* doQuery returned an error and to QueryCounter if it returned none; it
\* has not run when doQuery returned before installing it.
C28_HookRecordsOutcome ==
    Returned =>
      IF retErr = "ErrContext" THEN finishLog = <<>>
      ELSE finishLog = <<IF retErr # NoErr THEN "QueryErrorCounter"
                         ELSE "QueryCounter">>

====
